---- MODULE Spec2Model ----
(***************************************************************************)
(* Model of examples/Rest API Serving.ipynb: a notebook that loads a       *)
(* dataset, fits a pipeline, defines a JSON decoder and a JSON encoder,    *)
(* wraps the three in a FlaskRestApiWrapper and serves GET / requests.     *)
(*                                                                         *)
(* Numbers are integers.  A Python/JSON value is a tagged record (its tag  *)
(* is its dynamic type); a numpy array is a record of its shape, its       *)
(* row-major (C order) data buffer and its dtype.                          *)
(***************************************************************************)
EXTENDS Integers, Sequences, FiniteSets, TLC

\* ------------------------------------------------------------------ bounds
\* The dataset has MaxRows-2 .. MaxRows rows (the stock dataset has 506).
MaxRows == 6
\* Number of feature columns of the dataset (the stock dataset has 13).
NumFeatures == 2
\* A generated request body has at most MaxBodyRows rows.
MaxBodyRows == 2
\* Number of GET requests the clients send.
MaxRequests == 2
\* The outcomes of the estimators' random initialisation (KMeans() and
\* GradientBoostingRegressor() are given no random_state).
FitSeeds == {0, 1}

DatasetSizes == (MaxRows - 2)..MaxRows
Requests == 1..MaxRequests

\* ------------------------------------------------------- Python values
PyNum(v) == [t |-> "num", n |-> v, items |-> <<>>]
PyList(s) == [t |-> "list", n |-> 0, items |-> s]
\* A request body that is not JSON text at all.
NotJson == [t |-> "invalid", n |-> 0, items |-> <<>>]

\* ------------------------------------------------------------- numpy
NoArray == [shape |-> <<>>, data |-> <<>>, dtype |-> "none"]

IsNumList(s) == \A i \in 1..Len(s) : s[i].t = "num"

IsRegular2D(s) ==
    /\ Len(s) > 0
    /\ \A i \in 1..Len(s) :
          /\ s[i].t = "list"
          /\ Len(s[i].items) = Len(s[1].items)
          /\ IsNumList(s[i].items)

\* np.array that fills the buffer of a 2-D array column by column.
np_array_colmajor(obj) ==
    IF obj.t = "num"
    THEN [shape |-> <<>>, data |-> <<obj.n>>, dtype |-> "num"]
    ELSE LET s == obj.items
             n == Len(s)
         IN IF n = 0 THEN [shape |-> <<0>>, data |-> <<>>, dtype |-> "num"]
            ELSE IF IsNumList(s)
            THEN [shape |-> <<n>>, data |-> [i \in 1..n |-> s[i].n], dtype |-> "num"]
            ELSE IF IsRegular2D(s)
            THEN LET m == Len(s[1].items)
                 IN [shape |-> <<n, m>>,
                     data |-> [k \in 1..(n * m) |->
                                 s[((k - 1) % n) + 1].items[((k - 1) \div n) + 1].n],
                     dtype |-> "num"]
            ELSE [shape |-> <<n>>, data |-> <<>>, dtype |-> "object"]

\* np.array(obj).reshape(-1, NumFeatures) where the size allows it.
np_array_reshaping(obj) ==
    IF obj.t = "num"
    THEN [shape |-> <<>>, data |-> <<obj.n>>, dtype |-> "num"]
    ELSE LET s == obj.items
             n == Len(s)
         IN IF n = 0 THEN [shape |-> <<0>>, data |-> <<>>, dtype |-> "num"]
            ELSE IF IsNumList(s)
            THEN [shape |-> <<n>>, data |-> [i \in 1..n |-> s[i].n], dtype |-> "num"]
            ELSE IF IsRegular2D(s)
            THEN LET m == Len(s[1].items)
                     flat == [k \in 1..(n * m) |->
                                 s[((k - 1) \div m) + 1].items[((k - 1) % m) + 1].n]
                 IN IF m > 0 /\ (n * m) % NumFeatures = 0
                    THEN [shape |-> <<(n * m) \div NumFeatures, NumFeatures>>,
                          data |-> flat, dtype |-> "num"]
                    ELSE [shape |-> <<n, m>>, data |-> flat, dtype |-> "num"]
            ELSE [shape |-> <<n>>, data |-> <<>>, dtype |-> "object"]

\* np.array(obj) for a parsed JSON value: shape discovery, then a copy of the
\* numbers into a C-order buffer.  The empty list gives shape (0,); a list of
\* numbers a 1-D array; n lists of m numbers shape (n, m); a ragged list a 1-D
\* array of objects (numpy of the notebook's Python 3.6 kernel raises nothing).
np_array(obj) ==
    IF obj.t = "num"
    THEN [shape |-> <<>>, data |-> <<obj.n>>, dtype |-> "num"]
    ELSE LET s == obj.items
             n == Len(s)
         IN IF n = 0 THEN [shape |-> <<0>>, data |-> <<>>, dtype |-> "num"]
            ELSE IF IsNumList(s)
            THEN [shape |-> <<n>>, data |-> [i \in 1..n |-> s[i].n], dtype |-> "num"]
            ELSE IF IsRegular2D(s)
            THEN LET m == Len(s[1].items)
                 IN [shape |-> <<n, m>>,
                     data |-> [k \in 1..(n * m) |->
                                 s[((k - 1) \div m) + 1].items[((k - 1) % m) + 1].n],
                     dtype |-> "num"]
            ELSE [shape |-> <<n>>, data |-> <<>>, dtype |-> "object"]

\* arr[a:b] on the first axis of a 2-D array (rows a+1 .. b, 1-based).
SliceRows(arr, a, b) ==
    LET m == arr.shape[2]
    IN [shape |-> <<b - a, m>>,
        data |-> SubSeq(arr.data, a * m + 1, b * m),
        dtype |-> arr.dtype]

\* arr[a:b] of a 1-D array.
Slice1D(arr, a, b) ==
    [shape |-> <<b - a>>, data |-> SubSeq(arr.data, a + 1, b), dtype |-> arr.dtype]

\* arr[idx] (fancy indexing by a sequence of 1-based row numbers), 2-D.
TakeRows(arr, idx) ==
    LET m == arr.shape[2]
    IN [shape |-> <<Len(idx), m>>,
        data |-> [k \in 1..(Len(idx) * m) |->
                    arr.data[(idx[((k - 1) \div m) + 1] - 1) * m + ((k - 1) % m) + 1]],
        dtype |-> arr.dtype]

Take1D(arr, idx) ==
    [shape |-> <<Len(idx)>>, data |-> [k \in 1..Len(idx) |-> arr.data[idx[k]]],
     dtype |-> arr.dtype]

\* ndarray.tolist() of a 2-D array: a list of lists of numbers.
tolist(arr) ==
    LET n == arr.shape[1]
        m == arr.shape[2]
    IN PyList([i \in 1..n |->
                 PyList([j \in 1..m |-> PyNum(arr.data[(i - 1) * m + j])])])

RECURSIVE SumSeq(_)
SumSeq(s) == IF Len(s) = 0 THEN 0 ELSE s[1] + SumSeq(Tail(s))

\* --------------------------------------------------------------- sklearn
\* RandomState(seed) stands behind a linear congruential generator.
rng_next(s) == (s * 5 + 3) % 16

Swap(idx, i, j) == [idx EXCEPT ![i] = idx[j], ![j] = idx[i]]

\* RandomState.shuffle: Fisher-Yates from the last position down.
RECURSIVE rng_shuffle(_, _, _)
rng_shuffle(idx, i, s) ==
    IF i <= 1 THEN idx
    ELSE LET s2 == rng_next(s)
             j == (s2 % i) + 1
         IN rng_shuffle(Swap(idx, i, j), i - 1, s2)

\* sklearn.utils.shuffle(data, target, random_state): one permutation of the
\* row numbers, applied to both arrays.
shuffle(data, target, random_state) ==
    LET n == data.shape[1]
        idx == rng_shuffle([i \in 1..n |-> i], n, random_state)
    IN [X |-> TakeRows(data, idx), y |-> Take1D(target, idx)]

\* test_size=0.25 as a fraction.
test_size == [num |-> 1, den |-> 4]

\* train_test_split(X, y, test_size, shuffle=False): n_test = ceil(test_size * n),
\* n_train = n - n_test, train = the leading rows, test = the rows after them.
train_test_split(Xa, ya, ts) ==
    LET n == Xa.shape[1]
        n_test == (n * ts.num + ts.den - 1) \div ts.den
        n_train == n - n_test
    IN [X_train |-> SliceRows(Xa, 0, n_train),
        X_test |-> SliceRows(Xa, n_train, n_train + n_test),
        y_train |-> Slice1D(ya, 0, n_train),
        y_test |-> Slice1D(ya, n_train, n_train + n_test)]

\* r2_score(y_true, y_pred) = 1 - SS_res / SS_tot, kept as the fraction
\* num / den = SS_res / SS_tot (both scaled by n * n to stay in the integers).
r2_score(y_true, y_pred) ==
    LET n == y_true.shape[1]
        S == SumSeq(y_true.data)
    IN [num |-> n * n * SumSeq([i \in 1..n |->
                     (y_true.data[i] - y_pred.data[i]) * (y_true.data[i] - y_pred.data[i])]),
        den |-> SumSeq([i \in 1..n |->
                     (n * y_true.data[i] - S) * (n * y_true.data[i] - S)])]

\* load_boston(): n rows of NumFeatures numbers and one target per row.
load_boston(n) ==
    [data |-> [shape |-> <<n, NumFeatures>>,
               data |-> [k \in 1..(n * NumFeatures) |->
                           10 * (((k - 1) \div NumFeatures) + 1) + ((k - 1) % NumFeatures) + 1],
               dtype |-> "num"],
     target |-> [shape |-> <<n>>, data |-> [i \in 1..n |-> 3 * i + 1], dtype |-> "num"]]

\* ndarray.astype(np.float32): the model's numbers are small integers, which
\* float32 holds exactly; only the dtype changes.
astype_float32(arr) == [arr EXCEPT !.dtype = "num"]

\* ------------------------------------------------------ neuraxle Pipeline
\* Pipeline([AddFeatures([PCA, FastICA]), RidgeModelStacking([GBR, KMeans])])
NewPipeline == [fitted |-> FALSE, n_features |-> 0, coef |-> <<>>, intercept |-> 0]

\* Pipeline.fit(X, y): learns one weight per column and an intercept.
fit(self, Xa, ya, seed) ==
    [fitted |-> TRUE,
     n_features |-> Xa.shape[2],
     coef |-> [j \in 1..Xa.shape[2] |-> j],
     intercept |-> (SumSeq(ya.data) + seed) % 5]

predict_row(self, arr, i) ==
    LET m == arr.shape[2]
    IN self.intercept + SumSeq([j \in 1..m |-> self.coef[j] * arr.data[(i - 1) * m + j]])

\* Pipeline.transform(data_inputs): one prediction per row of a 2-D array of
\* n_features columns; any other input raises in the estimators.
transform(self, arr) ==
    IF ~self.fitted
    THEN [self |-> self, exc |-> "NotFittedError", ret |-> NoArray]
    ELSE IF arr.dtype # "num" \/ Len(arr.shape) # 2
    THEN [self |-> self, exc |-> "ValueError", ret |-> NoArray]
    ELSE IF arr.shape[2] # self.n_features
    THEN [self |-> self, exc |-> "ValueError", ret |-> NoArray]
    ELSE [self |-> self,
          exc |-> "",
          ret |-> [shape |-> <<arr.shape[1]>>,
                   data |-> [i \in 1..arr.shape[1] |-> predict_row(self, arr, i)],
                   dtype |-> "num"]]

\* ------------------------------------------------------------- adapters
\* An instance: its class and its instance attributes (the classes set none).
NewObject(cls) == [cls |-> cls, attrs |-> <<>>]

NoDict == [predictions |-> PyList(<<>>)]

\* list(data_inputs): iterates the first axis of the array.
py_list(arr) ==
    IF Len(arr.shape) = 1
    THEN PyList([i \in 1..arr.shape[1] |-> PyNum(arr.data[i])])
    ELSE LET n == arr.shape[1]
             m == arr.shape[2]
         IN PyList([i \in 1..n |->
                      PyList([j \in 1..m |-> PyNum(arr.data[(i - 1) * m + j])])])

\* A decoder that remembers the size of the last body on the instance.
decode_caching(self, data_inputs) ==
    [self |-> [self EXCEPT !.attrs = <<Len(data_inputs.items)>>],
     exc |-> "",
     ret |-> np_array(data_inputs)]

\* A decoder that forces any body into rows of NumFeatures columns.
decode_reshaping(self, data_inputs) ==
    [self |-> self, exc |-> "", ret |-> np_array_reshaping(data_inputs)]

\* A decoder that fills the buffer column by column.
decode_colmajor(self, data_inputs) ==
    [self |-> self, exc |-> "", ret |-> np_array_colmajor(data_inputs)]

\* CustomJSONDecoderFor2DArray.decode(self, data_inputs): np.array(data_inputs);
\* no assignment to self, no try/except.
decode(self, data_inputs) ==
    [self |-> self, exc |-> "", ret |-> np_array(data_inputs)]

\* An encoder that keeps every prediction it has seen on the instance.
encode_accumulating(self, data_inputs) ==
    IF Len(data_inputs.shape) = 0
    THEN [self |-> self, exc |-> "TypeError", ret |-> NoDict]
    ELSE [self |-> [self EXCEPT !.attrs = self.attrs \o data_inputs.data],
          exc |-> "",
          ret |-> [predictions |->
                     PyList([i \in 1..Len(self.attrs \o data_inputs.data) |->
                               PyNum((self.attrs \o data_inputs.data)[i])])]]

\* An encoder that drops the last prediction.
encode_dropping(self, data_inputs) ==
    IF Len(data_inputs.shape) = 0
    THEN [self |-> self, exc |-> "TypeError", ret |-> NoDict]
    ELSE [self |-> self, exc |-> "",
          ret |-> [predictions |->
                     PyList([i \in 1..(data_inputs.shape[1] - 1) |-> PyNum(data_inputs.data[i])])]]

\* CustomJSONEncoderOfOutputs.encode(self, data_inputs):
\* {'predictions': list(data_inputs)}; list() of a 0-d array raises TypeError.
encode(self, data_inputs) ==
    IF Len(data_inputs.shape) = 0
    THEN [self |-> self, exc |-> "TypeError", ret |-> NoDict]
    ELSE [self |-> self, exc |-> "", ret |-> [predictions |-> py_list(data_inputs)]]

\* The methods each class of the notebook defines.
Methods(cls) ==
    IF cls = "CustomJSONDecoderFor2DArray" THEN {"decode"}
    ELSE IF cls = "CustomJSONEncoderOfOutputs" THEN {"encode"}
    ELSE {}

\* ------------------------------------------------ FlaskRestApiWrapper, Flask
\* FlaskRestApiWrapper(json_decoder, wrapped, json_encoder, route): a pipeline of
\* the three steps, in this order; wrapped refers to the notebook's pipeline.
FlaskRestApiWrapper(json_decoder, wrapped, json_encoder, route) ==
    [json_decoder |-> json_decoder,
     wrapped |-> wrapped,
     json_encoder |-> json_encoder,
     route |-> route,
     steps |-> <<"json_decoder", "wrapped", "json_encoder">>]

NoApp == FlaskRestApiWrapper(NewObject(""), "", NewObject(""), "")

\* The call with the decoder and the encoder exchanged.
WrapCall_swapped ==
    FlaskRestApiWrapper(NewObject("CustomJSONEncoderOfOutputs"), "pipeline",
                        NewObject("CustomJSONDecoderFor2DArray"), "/")

\* FlaskRestApiWrapper(json_decoder=CustomJSONDecoderFor2DArray(), wrapped=pipeline,
\*                     json_encoder=CustomJSONEncoderOfOutputs(), route='/')
WrapCall ==
    FlaskRestApiWrapper(NewObject("CustomJSONDecoderFor2DArray"), "pipeline",
                        NewObject("CustomJSONEncoderOfOutputs"), "/")

NoServer == [running |-> FALSE, debug |-> FALSE, port |-> 0, threaded |-> FALSE]

\* app.run(debug, port): the development server; no threaded option is passed,
\* so the framework's default applies (threaded, in the Flask release whose
\* start-up banner the notebook records).
app_run(debug, port) ==
    [running |-> TRUE, debug |-> debug, port |-> port, threaded |-> TRUE]

\* request.get_json(): the parsed body, or BadRequest for a body that is not JSON.
get_json(body) ==
    IF body.t = "invalid"
    THEN [exc |-> "BadRequest", ret |-> body]
    ELSE [exc |-> "", ret |-> body]

\* jsonify(d): the JSON object with the dictionary's keys.
jsonify(d) == [k \in DOMAIN d |-> d[k]]

\* ---------------------------------------------------- values in flight
NoPy == [t |-> "none", n |-> 0, items |-> <<>>]
NoVal == [kind |-> "none", py |-> NoPy, arr |-> NoArray, dict |-> NoDict]
VPy(v) == [kind |-> "py", py |-> v, arr |-> NoArray, dict |-> NoDict]
VArr(a) == [kind |-> "ndarray", py |-> NoPy, arr |-> a, dict |-> NoDict]
VDict(d) == [kind |-> "dict", py |-> NoPy, arr |-> NoArray, dict |-> d]

NoResponse == [status |-> 0, json |-> NoDict, error |-> ""]

IdleReq ==
    [stage |-> "idle", body |-> NoPy, cur |-> NoVal, pos |-> 0, log |-> <<>>,
     exc |-> "", origin |-> "", response |-> NoResponse]

\* ---------------------------------------------------------------- state
VARIABLES
    pc,                 \* the next statement of the notebook
    phases,             \* the statements executed so far, in order
    namespace,          \* the classes defined in the kernel
    X, y,               \* the shuffled dataset
    X_train, X_test, y_train, y_test,
    pipeline,           \* the pipeline object
    fit_calls,          \* the arguments of every call of pipeline.fit
    y_train_predicted, y_test_predicted,
    scores,             \* the two R2 scores printed
    app,                \* the FlaskRestApiWrapper (decoder, wrapped, encoder)
    server,             \* the development server
    reqs                \* the GET requests, by arrival number

vars == <<pc, phases, namespace, X, y, X_train, X_test, y_train, y_test, pipeline,
          fit_calls, y_train_predicted, y_test_predicted, scores, app, server, reqs>>

dataVars == <<X, y, X_train, X_test, y_train, y_test>>
evalVars == <<y_train_predicted, y_test_predicted, scores>>

Init ==
    /\ pc = "import"
    /\ phases = <<>>
    /\ namespace = {}
    /\ X = NoArray /\ y = NoArray
    /\ X_train = NoArray /\ X_test = NoArray
    /\ y_train = NoArray /\ y_test = NoArray
    /\ pipeline = NewPipeline
    /\ fit_calls = <<>>
    /\ y_train_predicted = NoArray /\ y_test_predicted = NoArray
    /\ scores = <<>>
    /\ app = NoApp
    /\ server = NoServer
    /\ reqs = [r \in Requests |-> IdleReq]

\* ------------------------------------------------------ notebook cells
\* Cell 1: the imports.
ImportPackages ==
    /\ pc = "import"
    /\ pc' = "load"
    /\ phases' = Append(phases, "import")
    /\ UNCHANGED <<namespace, dataVars, pipeline, fit_calls, evalVars, app, server, reqs>>

\* Cell 2: load_boston, shuffle(random_state=13), astype(float32), train_test_split.
LoadDataset ==
    /\ pc = "load"
    /\ \E n \in DatasetSizes :
          LET boston == load_boston(n)
              sh == shuffle(boston.data, boston.target, 13)
              Xf == astype_float32(sh.X)
              sp == train_test_split(Xf, sh.y, test_size)
          IN /\ X' = Xf
             /\ y' = sh.y
             /\ X_train' = sp.X_train
             /\ X_test' = sp.X_test
             /\ y_train' = sp.y_train
             /\ y_test' = sp.y_test
    /\ pc' = "build"
    /\ phases' = Append(phases, "load")
    /\ UNCHANGED <<namespace, pipeline, fit_calls, evalVars, app, server, reqs>>

\* Cell 3 followed directly by cell 5: the training cell is never run.
CreatePipeline_skipfit ==
    /\ pc = "build"
    /\ pipeline' = NewPipeline
    /\ pc' = "define_decoder"
    /\ phases' = Append(phases, "build")
    /\ UNCHANGED <<namespace, dataVars, fit_calls, evalVars, app, server, reqs>>

\* Cell 3: pipeline = Pipeline([...]).
CreatePipeline ==
    /\ pc = "build"
    /\ pipeline' = NewPipeline
    /\ pc' = "fit"
    /\ phases' = Append(phases, "build")
    /\ UNCHANGED <<namespace, dataVars, fit_calls, evalVars, app, server, reqs>>

\* The arguments of the fit call, were it given the whole dataset.
FitArgs_all == [X |-> X, y |-> y]

\* pipeline.fit(X_train, y_train)
FitArgs == [X |-> X_train, y |-> y_train]

\* Cell 4, first statement: pipeline = pipeline.fit(X_train, y_train).
Fit ==
    /\ pc = "fit"
    /\ \E seed \in FitSeeds :
          pipeline' = fit(pipeline, FitArgs.X, FitArgs.y, seed)
    /\ fit_calls' = Append(fit_calls, FitArgs)
    /\ pc' = "evaluate"
    /\ phases' = Append(phases, "fit")
    /\ UNCHANGED <<namespace, dataVars, evalVars, app, server, reqs>>

\* Cell 4, the rest: transform train and test, then the two R2 scores
\* (the predictions are passed as r2_score's first argument).
Evaluate ==
    /\ pc = "evaluate"
    /\ LET tr == transform(pipeline, X_train)
           te == transform(tr.self, X_test)
       IN IF tr.exc # "" \/ te.exc # ""
          THEN /\ pc' = "raised"
               /\ pipeline' = te.self
               /\ UNCHANGED evalVars
          ELSE /\ pc' = "define_decoder"
               /\ pipeline' = te.self
               /\ y_train_predicted' = tr.ret
               /\ y_test_predicted' = te.ret
               /\ scores' = <<r2_score(tr.ret, y_train), r2_score(te.ret, y_test)>>
    /\ phases' = Append(phases, "evaluate")
    /\ UNCHANGED <<namespace, dataVars, fit_calls, app, server, reqs>>

\* Cell 5: class CustomJSONDecoderFor2DArray.
DefineDecoder ==
    /\ pc = "define_decoder"
    /\ namespace' = namespace \cup {"CustomJSONDecoderFor2DArray"}
    /\ pc' = "define_encoder"
    /\ phases' = Append(phases, "define_decoder")
    /\ UNCHANGED <<dataVars, pipeline, fit_calls, evalVars, app, server, reqs>>

\* Cell 6: class CustomJSONEncoderOfOutputs.
DefineEncoder ==
    /\ pc = "define_encoder"
    /\ namespace' = namespace \cup {"CustomJSONEncoderOfOutputs"}
    /\ pc' = "wrap"
    /\ phases' = Append(phases, "define_encoder")
    /\ UNCHANGED <<dataVars, pipeline, fit_calls, evalVars, app, server, reqs>>

\* Cell 7, first statement: app = FlaskRestApiWrapper(...).get_app().
Wrap ==
    /\ pc = "wrap"
    /\ IF {WrapCall.json_decoder.cls, WrapCall.json_encoder.cls} \subseteq namespace
       THEN /\ app' = WrapCall
            /\ pc' = "serve"
       ELSE /\ pc' = "raised"
            /\ UNCHANGED app
    /\ phases' = Append(phases, "wrap")
    /\ UNCHANGED <<namespace, dataVars, pipeline, fit_calls, evalVars, server, reqs>>

\* Cell 7, second statement: app.run(debug=False, port=5000); it does not return.
Serve ==
    /\ pc = "serve"
    /\ server' = app_run(FALSE, 5000)
    /\ pc' = "serving"
    /\ phases' = Append(phases, "serve")
    /\ UNCHANGED <<namespace, dataVars, pipeline, fit_calls, evalVars, app, reqs>>

\* ------------------------------------------------------ request bodies
\* A list of n lists of m numbers, all different.
GenBody(n, m) ==
    PyList([i \in 1..n |-> PyList([j \in 1..m |-> PyNum(10 * i + j)])])

Ragged == PyList(<<PyList(<<PyNum(1)>>), PyList(<<PyNum(1), PyNum(2)>>)>>)

ExampleBody == IF Len(X_test.shape) = 2 THEN tolist(X_test) ELSE PyList(<<>>)

\* What a client may send: 2-D lists of the dataset's width, one narrower and
\* one wider 2-D list, the empty list, a flat list, a bare number, a ragged
\* list, text that is not JSON, and the notebook's own example call,
\* json.dumps(X_test.tolist()).
Bodies ==
    {GenBody(n, NumFeatures) : n \in 1..MaxBodyRows}
    \cup {GenBody(1, NumFeatures - 1), GenBody(2, NumFeatures + 1)}
    \cup {PyList(<<>>), PyList(<<PyNum(1), PyNum(2)>>), PyNum(5), Ragged, NotJson,
          ExampleBody}

\* ----------------------------------------------------- request handling
InProcessing == {r \in Requests : reqs[r].stage = "handling"}

\* A server that takes one request at a time.
CanAccept_single(srv, inflight) == srv.running /\ inflight = {}

\* The development server takes a new request while others are in processing
\* when it runs threaded.
CanAccept(srv, inflight) == srv.running /\ (srv.threaded \/ inflight = {})

StepName(q) == IF q.pos \in 1..Len(app.steps) THEN app.steps[q.pos] ELSE ""

\* The framework's response to an exception that leaves the view.
ErrorResponse(exc) ==
    [status |-> IF exc = "BadRequest" THEN 400 ELSE 500, json |-> NoDict, error |-> exc]

\* The effect of one step on the request: its output becomes the next step's
\* input; the last step's output is sent as the JSON response; an exception
\* ends the request with the framework's error response.
Advance(q, cls, method, arg, out, exc, origin) ==
    IF exc # ""
    THEN [q EXCEPT !.stage = "done",
                   !.exc = exc,
                   !.origin = origin,
                   !.log = Append(@, [cls |-> cls, method |-> method, arg |-> arg,
                                      ret |-> NoVal, exc |-> exc]),
                   !.response = ErrorResponse(exc)]
    ELSE IF q.pos = Len(app.steps)
    THEN [q EXCEPT !.stage = "done",
                   !.cur = out,
                   !.pos = @ + 1,
                   !.log = Append(@, [cls |-> cls, method |-> method, arg |-> arg,
                                      ret |-> out, exc |-> ""]),
                   !.response = [status |-> 200, json |-> jsonify(out.dict),
                                 error |-> ""]]
    ELSE [q EXCEPT !.cur = out,
                   !.pos = @ + 1,
                   !.log = Append(@, [cls |-> cls, method |-> method, arg |-> arg,
                                      ret |-> out, exc |-> ""])]

\* GET /: the resource's get() starts with request.get_json().
HandleGet(r, b) ==
    /\ pc = "serving"
    /\ CanAccept(server, InProcessing)
    /\ reqs[r].stage = "idle"
    /\ \A q \in Requests : q < r => reqs[q].stage # "idle"
    /\ LET js == get_json(b)
       IN reqs' = [reqs EXCEPT ![r] =
                     IF js.exc # ""
                     THEN [@ EXCEPT !.stage = "done", !.body = b, !.exc = js.exc,
                                    !.origin = "flask",
                                    !.response = ErrorResponse(js.exc)]
                     ELSE [@ EXCEPT !.stage = "handling", !.body = b,
                                    !.cur = VPy(js.ret), !.pos = 1]]
    /\ UNCHANGED <<pc, phases, namespace, dataVars, pipeline, fit_calls, evalVars,
                   app, server>>

\* First step: the decoder's transform calls self.decode(data_inputs).
DecodeStage(r) ==
    /\ pc = "serving"
    /\ reqs[r].stage = "handling"
    /\ StepName(reqs[r]) = "json_decoder"
    /\ LET obj == app.json_decoder
           arg == reqs[r].cur
       IN IF "decode" \notin Methods(obj.cls)
          THEN /\ reqs' = [reqs EXCEPT ![r] =
                             Advance(@, obj.cls, "decode", arg, NoVal,
                                     "AttributeError", "wrapper")]
               /\ UNCHANGED app
          ELSE LET res == decode(obj, arg.py)
               IN /\ reqs' = [reqs EXCEPT ![r] =
                                Advance(@, obj.cls, "decode", arg, VArr(res.ret),
                                        res.exc, "decoder")]
                  /\ app' = [app EXCEPT !.json_decoder = res.self]
    /\ UNCHANGED <<pc, phases, namespace, dataVars, pipeline, fit_calls, evalVars, server>>

\* Second step: the wrapped pipeline's transform.
TransformStage(r) ==
    /\ pc = "serving"
    /\ reqs[r].stage = "handling"
    /\ StepName(reqs[r]) = "wrapped"
    /\ LET arg == reqs[r].cur
           res == transform(pipeline, arg.arr)
       IN /\ reqs' = [reqs EXCEPT ![r] =
                        Advance(@, "Pipeline", "transform", arg, VArr(res.ret),
                                res.exc, "pipeline")]
          /\ pipeline' = res.self
    /\ UNCHANGED <<pc, phases, namespace, dataVars, fit_calls, evalVars, app, server>>

\* Third step: the encoder's transform calls self.encode(data_inputs); its
\* output is the response.
EncodeStage(r) ==
    /\ pc = "serving"
    /\ reqs[r].stage = "handling"
    /\ StepName(reqs[r]) = "json_encoder"
    /\ LET obj == app.json_encoder
           arg == reqs[r].cur
       IN IF "encode" \notin Methods(obj.cls)
          THEN /\ reqs' = [reqs EXCEPT ![r] =
                             Advance(@, obj.cls, "encode", arg, NoVal,
                                     "AttributeError", "wrapper")]
               /\ UNCHANGED app
          ELSE LET res == encode(obj, arg.arr)
               IN /\ reqs' = [reqs EXCEPT ![r] =
                                Advance(@, obj.cls, "encode", arg, VDict(res.ret),
                                        res.exc, "encoder")]
                  /\ app' = [app EXCEPT !.json_encoder = res.self]
    /\ UNCHANGED <<pc, phases, namespace, dataVars, pipeline, fit_calls, evalVars, server>>

Next ==
    \/ ImportPackages
    \/ LoadDataset
    \/ CreatePipeline
    \/ Fit
    \/ Evaluate
    \/ DefineDecoder
    \/ DefineEncoder
    \/ Wrap
    \/ Serve
    \/ \E r \in Requests, b \in Bodies : HandleGet(r, b)
    \/ \E r \in Requests : DecodeStage(r)
    \/ \E r \in Requests : TransformStage(r)
    \/ \E r \in Requests : EncodeStage(r)

Spec == Init /\ [][Next]_vars

\* =================================================================== claims
\* Helpers of the statements below (they read the state; they are not part of
\* the program).
Done(r) == reqs[r].stage = "done"
Succeeded(r) == Done(r) /\ reqs[r].response.status = 200

\* b is a JSON list of lists of numbers (n lists, n >= 0).
IsListOfNumLists(b) ==
    /\ b.t = "list"
    /\ \A i \in 1..Len(b.items) :
          /\ b.items[i].t = "list"
          /\ \A j \in 1..Len(b.items[i].items) : b.items[i].items[j].t = "num"

\* ... whose lists all hold m numbers.
HoldsRowsOf(b, m) ==
    /\ IsListOfNumLists(b)
    /\ \A i \in 1..Len(b.items) : Len(b.items[i].items) = m

RowWidths(b) == {Len(b.items[i].items) : i \in 1..Len(b.items)}

ExpectedStages ==
    << <<"CustomJSONDecoderFor2DArray", "decode">>,
       <<"Pipeline", "transform">>,
       <<"CustomJSONEncoderOfOutputs", "encode">> >>

SixPhases == <<"load", "build", "fit", "evaluate", "wrap", "serve">>

IsSixPhase(p) == \E k \in 1..Len(SixPhases) : SixPhases[k] = p

\* ----------------------------------------------------------------- C1
\* C1 as stated: every GET request runs the three stages decode, transform,
\* encode, each exactly once, and its response is the encoder's output.
C1_EveryRequestThreeStages ==
    \A r \in Requests :
        Done(r) =>
            /\ Len(reqs[r].log) = 3
            /\ \A k \in 1..3 :
                  <<reqs[r].log[k].cls, reqs[r].log[k].method>> = ExpectedStages[k]
            /\ reqs[r].response.status = 200
            /\ reqs[r].response.json = reqs[r].log[3].ret.dict

\* C1 amended: the stages a request runs are a prefix of decode, transform,
\* encode, each at most once, the first on the parsed body and each later one
\* on the previous stage's output; only the last stage run may have raised; a
\* request that ends without an exception ran all three and its response is
\* the encoder's output; a request ended by an exception gets an error
\* response and runs no later stage.
C1_StagesInOrder ==
    \A r \in Requests :
        LET q == reqs[r]
            L == q.log
        IN /\ Len(L) <= 3
           /\ \A k \in 1..Len(L) : <<L[k].cls, L[k].method>> = ExpectedStages[k]
           /\ Len(L) >= 1 => (L[1].arg.kind = "py" /\ L[1].arg.py = q.body)
           /\ \A k \in 2..Len(L) :
                 /\ L[k].arg.kind = L[k - 1].ret.kind
                 /\ L[k].arg = L[k - 1].ret
           /\ \A k \in 1..(Len(L) - 1) : L[k].exc = ""
           /\ (Done(r) /\ q.exc = "") =>
                 /\ Len(L) = 3
                 /\ L[3].exc = ""
                 /\ L[3].ret.kind = "dict"
                 /\ q.response.status = 200
                 /\ q.response.json = L[3].ret.dict
           /\ (Done(r) /\ q.exc # "") =>
                 /\ q.response.status # 200
                 /\ q.response.error = q.exc
                 /\ (Len(L) > 0 => L[Len(L)].exc = q.exc)

C1_Witness ==
    \E r \in Requests :
        /\ Succeeded(r)
        /\ Len(reqs[r].log) = 3
        /\ Len(reqs[r].body.items) >= 2

\* ----------------------------------------------------------------- C2
\* C2: encode(s) of a numeric sequence s is a dictionary with the single key
\* 'predictions' whose value lists the elements of s, same length, same
\* order; every successful response is a JSON object {"predictions": [...]}.
C2_EncodePredictions ==
    \A r \in Requests :
        /\ \A k \in 1..Len(reqs[r].log) :
              LET e == reqs[r].log[k]
              IN (e.method = "encode" /\ e.exc = "") =>
                    /\ e.arg.kind = "ndarray"
                    /\ Len(e.arg.arr.shape) = 1
                    /\ e.ret.kind = "dict"
                    /\ DOMAIN e.ret.dict = {"predictions"}
                    /\ e.ret.dict.predictions.t = "list"
                    /\ Len(e.ret.dict.predictions.items) = e.arg.arr.shape[1]
                    /\ \A i \in 1..e.arg.arr.shape[1] :
                          /\ e.ret.dict.predictions.items[i].t = "num"
                          /\ e.ret.dict.predictions.items[i].n = e.arg.arr.data[i]
        /\ Succeeded(r) =>
              /\ DOMAIN reqs[r].response.json = {"predictions"}
              /\ reqs[r].response.json.predictions.t = "list"
              /\ \A i \in 1..Len(reqs[r].response.json.predictions.items) :
                    reqs[r].response.json.predictions.items[i].t = "num"

C2_Witness ==
    \E r \in Requests :
        /\ Succeeded(r)
        /\ reqs[r].log[3].method = "encode"
        /\ reqs[r].log[3].arg.arr.shape[1] >= 2
        /\ reqs[r].log[3].arg.arr.data[1] # reqs[r].log[3].arg.arr.data[2]

\* ----------------------------------------------------------------- C3
\* C3 as stated: for every JSON list of n lists of m numbers (n >= 0), decode
\* returns an array of shape (n, m), that is, a 2-D array.
C3_EveryListOfLists2D ==
    \A r \in Requests :
        \A k \in 1..Len(reqs[r].log) :
            LET e == reqs[r].log[k]
            IN (/\ e.method = "decode"
                /\ e.exc = ""
                /\ IsListOfNumLists(e.arg.py)
                /\ Cardinality(RowWidths(e.arg.py)) <= 1) =>
                   /\ Len(e.ret.arr.shape) = 2
                   /\ e.ret.arr.shape[1] = Len(e.arg.py.items)

\* C3 amended: for every JSON list of n >= 1 lists that each hold m numbers,
\* decode returns an array of shape (n, m) whose element [i][j] is the j-th
\* number of the i-th list; the empty list (n = 0) decodes to an empty 1-D
\* array of shape (0,).
C3_Decode2D ==
    \A r \in Requests :
        \A k \in 1..Len(reqs[r].log) :
            LET e == reqs[r].log[k]
                b == e.arg.py
                a == e.ret.arr
                n == Len(b.items)
            IN (e.method = "decode" /\ e.exc = "" /\ IsListOfNumLists(b)) =>
                  /\ n = 0 => (a.shape = <<0>> /\ a.data = <<>>)
                  /\ \A m \in RowWidths(b) :
                        HoldsRowsOf(b, m) =>
                           /\ a.shape = <<n, m>>
                           /\ Len(a.data) = n * m
                           /\ \A i \in 0..(n - 1), j \in 0..(m - 1) :
                                 a.data[i * m + j + 1] = b.items[i + 1].items[j + 1].n

C3_Witness ==
    \E r \in Requests :
        /\ Len(reqs[r].log) >= 1
        /\ reqs[r].log[1].method = "decode"
        /\ Len(reqs[r].body.items) >= 2
        /\ HoldsRowsOf(reqs[r].body, NumFeatures + 1)
        /\ reqs[r].log[1].ret.arr.shape = <<Len(reqs[r].body.items), NumFeatures + 1>>

\* ----------------------------------------------------------------- C4
\* C4: the phases load, build, fit, evaluate, wrap, serve happen in this
\* order, each once; the pipeline is fitted exactly once before the server
\* runs; the server runs only after fit and evaluate; no request reaches the
\* transform of an unfitted pipeline.
C4_Sequential ==
    LET done == SelectSeq(phases, IsSixPhase)
    IN /\ Len(done) <= Len(SixPhases)
       /\ \A k \in 1..Len(done) : done[k] = SixPhases[k]
       /\ Len(fit_calls) <= 1
       /\ server.running =>
             /\ Len(fit_calls) = 1
             /\ pipeline.fitted
             /\ Len(done) = Len(SixPhases)
             /\ Len(y_train_predicted.shape) = 1
             /\ Len(scores) = 2
       /\ \A r \in Requests :
             /\ reqs[r].stage # "idle" => (server.running /\ pipeline.fitted)
             /\ \A k \in 1..Len(reqs[r].log) :
                   reqs[r].log[k].exc # "NotFittedError"

C4_Witness ==
    /\ pc = "serving"
    /\ \E r \in Requests :
          /\ Len(reqs[r].log) >= 2
          /\ reqs[r].log[2].method = "transform"
          /\ reqs[r].log[2].exc = ""

\* ----------------------------------------------------------------- C5
\* C5 as stated: at any moment at most one request is being processed.
C5_AtMostOneInProcessing == Cardinality(InProcessing) <= 1

\* C5 amended: app.run(debug=False, port=5000) passes no threaded option and
\* the server runs threaded: a running server accepts the next request whether
\* or not others are in processing (so stages of different requests may
\* interleave), while each request's own stages still run one at a time and in
\* order: a request in processing has run exactly the stages before its
\* position.
C5_ThreadedInOrder ==
    /\ (pc = "serving" /\ \E r \in Requests : reqs[r].stage = "idle") =>
          ENABLED (\E r \in Requests, b \in Bodies : HandleGet(r, b))
    /\ \A r \in Requests :
          reqs[r].stage = "handling" =>
             /\ reqs[r].pos \in 1..3
             /\ Len(reqs[r].log) = reqs[r].pos - 1
             /\ \A k \in 1..Len(reqs[r].log) :
                   reqs[r].log[k].method = ExpectedStages[k][2]

C5_Witness ==
    \E r1, r2 \in Requests :
        /\ r1 # r2
        /\ reqs[r1].stage = "handling" /\ reqs[r1].pos = 3
        /\ reqs[r2].stage = "handling" /\ reqs[r2].pos = 2

\* ----------------------------------------------------------------- C6
\* C6: the adapters handle no error: a request whose body is not a list of
\* n >= 1 lists of NumFeatures numbers, or one of whose stages raised, ends
\* with the error of the web framework or of the pipeline, and the encoder
\* produces no {"predictions": ...} result for it.
C6_NoErrorHandling ==
    \A r \in Requests :
        LET q == reqs[r]
        IN (Done(r) /\ (q.exc # ""
                        \/ ~HoldsRowsOf(q.body, NumFeatures)
                        \/ Len(q.body.items) = 0)) =>
              /\ q.exc # ""
              /\ q.response.status \in {400, 500}
              /\ q.response.error = q.exc
              /\ q.origin \in {"flask", "pipeline"}
              /\ \A k \in 1..Len(q.log) : q.log[k].method # "encode"

C6_Witness ==
    \E r1, r2 \in Requests :
        /\ Done(r1) /\ reqs[r1].origin = "pipeline" /\ reqs[r1].exc = "ValueError"
        /\ Len(reqs[r1].log) = 2
        /\ Done(r2) /\ reqs[r2].origin = "flask" /\ reqs[r2].response.status = 400

\* ----------------------------------------------------------------- C7
\* C7: train_test_split cuts the shuffled dataset into a leading train part
\* and a trailing test part of ceil(n / 4) rows that together hold every row
\* once, and fit receives exactly (X_train, y_train): no row of X_test.
C7_FitOnTrainOnly ==
    (pc \notin {"import", "load"}) =>
        LET n == X.shape[1]
            ntr == X_train.shape[1]
            nte == X_test.shape[1]
            m == X.shape[2]
        IN /\ ntr + nte = n
           /\ 4 * nte >= n /\ 4 * (nte - 1) < n
           /\ ntr >= 1
           /\ X_train.data \o X_test.data = X.data
           /\ Len(X_train.data) = ntr * m
           /\ y_train.data \o y_test.data = y.data
           /\ Len(y_train.data) = ntr
           /\ \A c \in 1..Len(fit_calls) :
                 /\ fit_calls[c].X = X_train
                 /\ fit_calls[c].y = y_train
                 /\ \A i \in 1..fit_calls[c].X.shape[1], j \in 1..nte :
                       SubSeq(fit_calls[c].X.data, (i - 1) * m + 1, i * m)
                          # SubSeq(X_test.data, (j - 1) * m + 1, j * m)

C7_Witness ==
    /\ Len(fit_calls) = 1
    /\ pipeline.fitted
    /\ X_test.shape[1] >= 2
    /\ X.shape[1] = 5

\* ----------------------------------------------------------------- C8
\* C8: while the server runs, no step changes the fitted pipeline, the
\* decoder, the encoder, or the record of fit calls: requests only transform.
C8_ServingLeavesFitted ==
    [][pc = "serving" =>
          /\ pipeline' = pipeline
          /\ app' = app
          /\ fit_calls' = fit_calls]_vars

C8_Witness ==
    /\ pipeline.fitted
    /\ \A r \in Requests : Succeeded(r)

\* ----------------------------------------------------------------- C9
\* C9: a successful request whose body holds n rows gets n predictions, the
\* i-th being the pipeline's prediction for the i-th row of the body; the
\* example call with X_test.tolist() reads back the test predictions.
C9_OnePredictionPerRow ==
    \A r \in Requests :
        Succeeded(r) =>
            LET b == reqs[r].body
                p == reqs[r].response.json.predictions
                n == Len(b.items)
            IN /\ HoldsRowsOf(b, NumFeatures)
               /\ p.t = "list"
               /\ Len(p.items) = n
               /\ \A i \in 1..n :
                     p.items[i].n =
                        pipeline.intercept
                        + SumSeq([j \in 1..NumFeatures |->
                                    pipeline.coef[j] * b.items[i].items[j].n])
               /\ b = tolist(X_test) =>
                     \A i \in 1..n : p.items[i].n = y_test_predicted.data[i]

C9_Witness ==
    \E r \in Requests :
        /\ Succeeded(r)
        /\ reqs[r].body = tolist(X_test)
        /\ Len(reqs[r].response.json.predictions.items) >= 2

====
